---- MODULE Spec2Model ----
(***************************************************************************)
(* Model of the profit accrual hook (src/hooks/useProfitGeneration.tsx)    *)
(* and of the verification widget wrapper (RecaptchaWrapper).              *)
(*                                                                         *)
(* Time is an absolute instant counted in minutes; the local time zone is  *)
(* taken to be UTC and a calendar day to be 24 hours.  Every remote call   *)
(* is one step that takes effect when its response arrives and that may    *)
(* fail; the client code between two awaits is part of the same step.      *)
(* The clock may move between any two steps, so a cycle can still be in    *)
(* flight when the next day's cycle of the same instance starts.           *)
(*                                                                         *)
(* Money is kept in whole units; the amounts and percentages used make     *)
(* amount * percentage / 100 exact.  Rows come back from the batch fetch   *)
(* in table order.                                                         *)
(*                                                                         *)
(* Spec          the accrual process of a hook instance over a table that  *)
(*               earlier activatePlan calls have filled                    *)
(* SpecGate      shouldGenerateProfit called at arbitrary instants         *)
(* SpecActivate  activatePlan calls against an empty table                 *)
(* SpecLife      a first activatePlan call next to the accrual process     *)
(* SpecTabs      two hook instances over one investment                    *)
(* SpecAudit     one hook instance over one investment, with the days on   *)
(*               which its writes landed recorded                          *)
(* SpecWidget    RecaptchaWrapper components sharing one query cache       *)
(***************************************************************************)
EXTENDS Integers, Sequences, FiniteSets, TLC

\* ------------------------------------------------------------------ bounds
MaxDay == 1
MaxFetches == 2
MaxPropChanges == 1
MaxInv == 1
MaxTabDays == 1

\* ------------------------------------------------------- calendar and time
HourMinutes == 60
DayMinutes == 24 * HourMinutes
IntervalMinutes == (60 * 60 * 1000) \div (60 * 1000)
WindowMinutes == 5

Horizon == (MaxDay + 1) * DayMinutes - 1

\* Date.prototype.toDateString: the local calendar day of an instant
ToDateString(t) == t \div DayMinutes
\* Date.prototype.getHours / getMinutes
GetHours(t) == (t % DayMinutes) \div HourMinutes
GetMinutes(t) == t % HourMinutes

\* Date.prototype.toISOString: <<day, hours, minutes>> in UTC
ToISOString(t) == << t \div DayMinutes, (t % DayMinutes) \div HourMinutes, t % HourMinutes >>
\* new Date(isoString)
ParseISO(s) == s[1] * DayMinutes + s[2] * HourMinutes + s[3]
\* the backend's ordering of two stored timestamps (gte filter)
IsoGte(a, b) ==
    \/ a[1] > b[1]
    \/ a[1] = b[1] /\ a[2] > b[2]
    \/ a[1] = b[1] /\ a[2] = b[2] /\ a[3] >= b[3]

\* variant: the duration is added as hours (setHours instead of setDate)
AddDaysAsHours(t, days) ==
    t + days * HourMinutes

\* endDate.setDate(endDate.getDate() + days)
AddDays(t, days) ==
    t + days * DayMinutes

\* ------------------------------------------------------------ input sets
Instances == {1}
Users == {"u1", "u2"}
PlanIds == {"p1", "p2"}
MissingPlan == "p9"
Amounts == {1000, 500}
TimesOfDay == {0, 2, 5}
GateTimes == {0, 1, 4, 5, 6, 59, 60, 64, 720, 1439}
Null == -1

\* investment_plans rows (immutable reference data)
PlanTable ==
    [p \in PlanIds |->
        IF p = "p1"
        THEN [name |-> "Starter", duration_days |-> 1, daily_profit_percentage |-> 2]
        ELSE [name |-> "Pro", duration_days |-> 2, daily_profit_percentage |-> 4]]

VARIABLES
    now,                 \* wall clock
    status,              \* per hook instance: "new", "mounted", "unmounted"
    lastProfitCheckRef,  \* per hook instance: Null or a day
    intervalRef,         \* per hook instance: Null or a timer handle
    timers,              \* live interval timers: records [id, due]
    gateSeq,             \* per instance: flips on every shouldGenerateProfit call
    gateResult,          \* per instance: value returned by the last call
    trueDays,            \* per instance: days on which a call returned true
    investments,         \* user_investments table, indexed by id
    balance,             \* per user: balance kept by update_user_balance
    lastRpc,             \* last successful update_user_balance call
    notes,               \* per user: send_user_notification calls delivered
    cyc,                 \* accrual cycles, per instance and day of start; for an
                         \* audited instance, updated and credited hold the
                         \* << record, day >> of the writes that went through
    act,                 \* the activatePlan call in flight
    toasts,              \* toast() calls of the activatePlan call in flight
    grecaptcha,          \* window.grecaptcha exists
    scripts,             \* script elements appended to document.head
    settings,            \* recaptchaSettings (query data)
    fetches,             \* number of resolved configuration fetches
    comp,                \* per widget component: its React state and props
    lastResp,            \* the last answer of the recaptcha_settings read
    lastRender,          \* per widget component: its last grecaptcha.render call
    renderCount,         \* number of grecaptcha.render calls so far
    propChanges          \* number of callback prop changes

gateVars == << lastProfitCheckRef, gateSeq, gateResult, trueDays >>
timerVars == << status, intervalRef, timers >>
dbVars == << investments, balance, lastRpc, notes >>
actVars == << act, toasts >>
widgetVars ==
    << grecaptcha, scripts, settings, fetches, lastResp, comp, lastRender,
       renderCount, propChanges >>
vars == << now, gateVars, timerVars, dbVars, cyc, actVars, widgetVars >>


\* ------------------------------------------------- shouldGenerateProfit
\* variant: minute 5 still counts as inside the window
InWindowInclusive(t) ==
    GetHours(t) = 0 /\ GetMinutes(t) <= WindowMinutes

\* hours === 0 && minutes < 5
InWindow(t) ==
    GetHours(t) = 0 /\ GetMinutes(t) < WindowMinutes

\* the value shouldGenerateProfit returns when the marker is last, at time t
GateReturn(last, t) ==
    IF last = ToDateString(t) THEN FALSE ELSE InWindow(t)

\* variant: the day marker is never written
GateMarkerNoSet(last, t) ==
    last

\* the marker shouldGenerateProfit leaves behind
GateMarker(last, t) ==
    IF last # ToDateString(t) /\ InWindow(t) THEN ToDateString(t) ELSE last

\* variant: one day marker shared by all hook instances
ShouldGenerateProfitShared(i) ==
    /\ lastProfitCheckRef' = [j \in DOMAIN lastProfitCheckRef |->
                                 GateMarker(lastProfitCheckRef[i], now)]
    /\ gateResult' = [gateResult EXCEPT ![i] = GateReturn(lastProfitCheckRef[i], now)]
    /\ gateSeq' = [gateSeq EXCEPT ![i] = 1 - @]
    /\ trueDays' = [trueDays EXCEPT ![i] =
                      IF GateReturn(lastProfitCheckRef[i], now)
                      THEN @ \cup {ToDateString(now)} ELSE @]

\* one call of shouldGenerateProfit by hook instance i
ShouldGenerateProfit(i) ==
    /\ lastProfitCheckRef' = [lastProfitCheckRef EXCEPT ![i] = GateMarker(@, now)]
    /\ gateResult' = [gateResult EXCEPT ![i] = GateReturn(lastProfitCheckRef[i], now)]
    /\ gateSeq' = [gateSeq EXCEPT ![i] = 1 - @]
    /\ trueDays' = [trueDays EXCEPT ![i] =
                      IF GateReturn(lastProfitCheckRef[i], now)
                      THEN @ \cup {ToDateString(now)} ELSE @]

\* ------------------------------------------------------------ the backend
\* the row activatePlan inserts at instant t
NewInvestment(id, userId, planId, amount, t) ==
    [id |-> id, user_id |-> userId, plan_id |-> planId, amount |-> amount,
     start_date |-> ToISOString(t),
     end_date |-> ToISOString(AddDays(t, PlanTable[planId].duration_days)),
     is_active |-> TRUE, profit_earned |-> 0]

\* rpc update_user_balance(p_user_id, p_amount, p_operation)
UpdateUserBalance(bal, user, amount, op) ==
    [bal EXCEPT ![user] = IF op = "add" THEN @ + amount ELSE @ - amount]

NoRpc == [user |-> "none", amount |-> 0, op |-> "none"]

\* ------------------------------------------------------- the accrual cycle
Days == 0 .. MaxDay

NoInv == [id |-> 0, user_id |-> "none", end_date |-> << 0, 0, 0 >>,
          profit_earned |-> 0, plan_name |-> "none"]

IdleCycle ==
    [pc |-> "none", fetchNow |-> << 0, 0, 0 >>, queue |-> << >>,
     fetched |-> << >>, started |-> << >>, failed |-> {}, inv |-> NoInv,
     err |-> FALSE, updated |-> {}, credited |-> {}]

\* variant: the percentage is not divided by 100
DailyProfitNoDiv(amount, dailyProfitPercentage) ==
    amount * dailyProfitPercentage

\* const dailyProfit = (amount * dailyProfitPercentage) / 100
DailyProfit(amount, dailyProfitPercentage) ==
    (amount * dailyProfitPercentage) \div 100

\* the arguments the loop passes to generateDailyProfit for one fetched row
CallArgs(r) ==
    [id |-> r.id, amount |-> r.amount,
     pct |-> PlanTable[r.plan_id].daily_profit_percentage]

\* variant: the end_date condition is left out
BatchFilterNoDate(r, fetchNow) ==
    r.is_active

\* .eq('is_active', true).gte('end_date', <now at the request>)
BatchFilter(r, fetchNow) ==
    r.is_active /\ IsoGte(r.end_date, fetchNow)

\* the ids of the fetched rows, in fetch order
FetchedIds(q) ==
    [k \in 1 .. Len(q) |-> q[k].id]

\* the rows the batch fetch returns, in table order
BatchFetch(table, fetchNow) ==
    LET rows == SelectSeq(table, LAMBDA r : BatchFilter(r, fetchNow))
    IN  [k \in 1 .. Len(rows) |-> CallArgs(rows[k])]

\* the for loop reaches the row at the head of the queue, or ends
EnterRecord(c) ==
    IF c.queue = << >>
    THEN [c EXCEPT !.pc = "done", !.inv = NoInv]
    ELSE [c EXCEPT !.pc = "read", !.inv = NoInv,
                   !.started = Append(@, Head(c.queue).id)]

\* generateDailyProfit returns normally
LeaveRecord(c) ==
    EnterRecord([c EXCEPT !.queue = Tail(@)])

\* variant: the error escapes to the outer catch and ends the loop
FailRecordAbort(c) ==
    [c EXCEPT !.pc = "done", !.inv = NoInv, !.queue = << >>,
              !.failed = @ \cup {Head(c.queue).id}]

\* generateDailyProfit throws inside its try: caught and logged (150-152)
FailRecord(c) ==
    LeaveRecord([c EXCEPT !.failed = @ \cup {Head(c.queue).id}])

\* select('*, investment_plans(*)').eq('id', investmentId).single()
Snapshot(r) ==
    [id |-> r.id, user_id |-> r.user_id, end_date |-> r.end_date,
     profit_earned |-> r.profit_earned, plan_name |-> PlanTable[r.plan_id].name]

\* variant: the deactivating update writes nothing
DeactivateRowNoop(table, id) ==
    table

\* update({ is_active: false }).eq('id', investmentId)
DeactivateRow(table, id) ==
    [table EXCEPT ![id].is_active = FALSE]

\* now > endDate
Expired(t, inv) ==
    t > ParseISO(inv.end_date)

\* the hook instance whose writes are recorded with the day they landed on
Audited == {3}

\* history: record k was written by instance i on the current calendar day
WriteStamp(i, k) ==
    IF i \in Audited THEN {<< k, ToDateString(now) >>} ELSE {}

CurProfit(c) ==
    DailyProfit(Head(c.queue).amount, Head(c.queue).pct)

\* generateProfitsForActiveInvestments up to its first await
Check(i) ==
    /\ ShouldGenerateProfit(i)
    /\ cyc' = IF GateReturn(lastProfitCheckRef[i], now)
              THEN [cyc EXCEPT ![i][ToDateString(now)] =
                       [IdleCycle EXCEPT !.pc = "fetch", !.fetchNow = ToISOString(now)]]
              ELSE cyc

\* variant: the failed fetch is issued again
AbortCycleRetry(c) ==
    [c EXCEPT !.err = TRUE]

\* if (error) throw error: the outer catch logs it and the function ends
\* (170, 181-183)
AbortCycle(c) ==
    [c EXCEPT !.pc = "aborted", !.err = TRUE, !.fetchNow = IdleCycle.fetchNow]

\* the batch fetch answers
Fetch(i, d, ok) ==
    /\ cyc[i][d].pc = "fetch"
    /\ cyc' = [cyc EXCEPT ![i][d] =
                 IF ok
                 THEN LET q == BatchFetch(investments, @.fetchNow)
                      IN  EnterRecord([@ EXCEPT !.queue = q, !.fetched = FetchedIds(q),
                                                !.err = FALSE,
                                                !.fetchNow = IdleCycle.fetchNow])
                 ELSE AbortCycle(@)]
    /\ UNCHANGED << now, gateVars, timerVars, dbVars, actVars, widgetVars >>

\* the read of one investment answers; the expiry test follows at once
ReadInvestment(i, d, ok) ==
    /\ cyc[i][d].pc = "read"
    /\ cyc' = [cyc EXCEPT ![i][d] =
                 IF ok
                 THEN LET inv == Snapshot(investments[Head(@.queue).id])
                      IN  [@ EXCEPT !.inv = inv, !.err = FALSE,
                                    !.pc = IF Expired(now, inv) THEN "deactivate" ELSE "update"]
                 ELSE FailRecord([@ EXCEPT !.err = TRUE])]
    /\ UNCHANGED << now, gateVars, timerVars, dbVars, actVars, widgetVars >>

\* update({ is_active: false }) answers; its error is not looked at
Deactivate(i, d, ok) ==
    /\ cyc[i][d].pc = "deactivate"
    /\ investments' = IF ok
                      THEN DeactivateRow(investments, cyc[i][d].inv.id)
                      ELSE investments
    /\ cyc' = [cyc EXCEPT ![i][d] = LeaveRecord([@ EXCEPT !.err = ~ok])]
    /\ UNCHANGED << now, gateVars, timerVars, balance, lastRpc, notes, actVars, widgetVars >>

\* variant: the increment is applied to the row as it is in the table
NewProfitEarnedAtomic(table, inv, dailyProfit) ==
    table[inv.id].profit_earned + dailyProfit

\* profit_earned: (Number(investment.profit_earned) + dailyProfit), computed
\* from the row read at 98-102, whatever the table holds by now
NewProfitEarned(table, inv, dailyProfit) ==
    inv.profit_earned + dailyProfit

\* update({ profit_earned: ... }) answers
UpdateProfit(i, d, ok) ==
    /\ cyc[i][d].pc = "update"
    /\ investments' = IF ok
                      THEN [investments EXCEPT ![cyc[i][d].inv.id].profit_earned =
                               NewProfitEarned(investments, cyc[i][d].inv,
                                               CurProfit(cyc[i][d]))]
                      ELSE investments
    /\ cyc' = [cyc EXCEPT ![i][d] =
                 IF ok
                 THEN [@ EXCEPT !.pc = "credit", !.err = FALSE,
                                !.updated = @ \cup WriteStamp(i, cyc[i][d].inv.id)]
                 ELSE FailRecord([@ EXCEPT !.err = TRUE])]
    /\ UNCHANGED << now, gateVars, timerVars, balance, lastRpc, notes, actVars, widgetVars >>

\* rpc update_user_balance(..., 'add') answers
CreditBalance(i, d, ok) ==
    /\ cyc[i][d].pc = "credit"
    /\ balance' = IF ok
                  THEN UpdateUserBalance(balance, cyc[i][d].inv.user_id, CurProfit(cyc[i][d]), "add")
                  ELSE balance
    /\ lastRpc' = IF ok
                  THEN [user |-> cyc[i][d].inv.user_id, amount |-> CurProfit(cyc[i][d]), op |-> "add"]
                  ELSE lastRpc
    /\ cyc' = [cyc EXCEPT ![i][d] =
                 IF ok
                 THEN [@ EXCEPT !.pc = "notify", !.err = FALSE,
                                !.credited = @ \cup WriteStamp(i, cyc[i][d].inv.id)]
                 ELSE FailRecord([@ EXCEPT !.err = TRUE])]
    /\ UNCHANGED << now, gateVars, timerVars, investments, notes, actVars, widgetVars >>

\* rpc send_user_notification answers; its error is not looked at
Notify(i, d, ok) ==
    /\ cyc[i][d].pc = "notify"
    /\ notes' = IF ok THEN [notes EXCEPT ![cyc[i][d].inv.user_id] = @ + 1] ELSE notes
    /\ cyc' = [cyc EXCEPT ![i][d] = LeaveRecord([@ EXCEPT !.err = ~ok])]
    /\ UNCHANGED << now, gateVars, timerVars, investments, balance, lastRpc, actVars, widgetVars >>

\* ------------------------------------------------------ mount, timer, clock
\* variant: clearInterval leaves the timer running
ClearIntervalNoop(tms, handle) ==
    tms

\* clearInterval(handle)
ClearInterval(tms, handle) ==
    {tm \in tms : tm.id # handle}

\* the effect body: clear, immediate check, setInterval
Mount(i) ==
    /\ status[i] = "new"
    /\ status' = [status EXCEPT ![i] = "mounted"]
    /\ Check(i)
    /\ timers' = (IF intervalRef[i] # Null
                  THEN ClearInterval(timers, intervalRef[i]) ELSE timers)
                    \cup {[id |-> i, due |-> now + IntervalMinutes]}
    /\ intervalRef' = [intervalRef EXCEPT ![i] = i]
    /\ UNCHANGED << now, dbVars, actVars, widgetVars >>

\* the interval timer of instance i fires
TimerTick(i) ==
    /\ [id |-> i, due |-> now] \in timers
    /\ Check(i)
    /\ timers' = (timers \ {[id |-> i, due |-> now]})
                    \cup {[id |-> i, due |-> now + IntervalMinutes]}
    /\ UNCHANGED << now, status, intervalRef, dbVars, actVars, widgetVars >>

\* the effect's cleanup function
Unmount(i) ==
    /\ status[i] = "mounted"
    /\ status' = [status EXCEPT ![i] = "unmounted"]
    /\ timers' = IF intervalRef[i] # Null
                 THEN ClearInterval(timers, intervalRef[i]) ELSE timers
    /\ intervalRef' = [intervalRef EXCEPT ![i] = IF @ # Null THEN Null ELSE @]
    /\ UNCHANGED << now, gateVars, dbVars, cyc, actVars, widgetVars >>

\* the instants at which interval timer tm fires from its due time on
TickInstants(tm) ==
    {tm.due + k * IntervalMinutes : k \in 0 .. (Horizon \div IntervalMinutes)}

\* a tick outside the window returns at the gate and changes nothing (76-90)
Skippable(tm, t) ==
    \A u \in TickInstants(tm) : u < t => ~InWindow(u)

\* the first tick of tm at or after instant t
DueFrom(tm, t) ==
    IF tm.due >= t
    THEN tm.due
    ELSE tm.due + IntervalMinutes * ((t - tm.due + IntervalMinutes - 1) \div IntervalMinutes)

\* instants the clock is observed at
ClockPoints(S) ==
    {d * DayMinutes + s : d \in 0 .. MaxDay, s \in S}
        \cup UNION {{u \in TickInstants(tm) : InWindow(u)} : tm \in timers}

\* the clock moves forward; a timer that is due fires first, and the clock
\* passes only ticks that fall outside the window
Advance(S) ==
    /\ \E t \in ClockPoints(S) :
          /\ t > now
          /\ t <= Horizon
          /\ \A tm \in timers : tm.due > now /\ Skippable(tm, t)
          /\ now' = t
          /\ timers' = {[id |-> tm.id, due |-> DueFrom(tm, t)] : tm \in timers}
    /\ UNCHANGED << gateVars, status, intervalRef, dbVars, cyc, actVars, widgetVars >>

\* ------------------------------------------------------------ activatePlan
NoRow == [id |-> 0, user_id |-> "none", plan_id |-> "none", amount |-> 0,
          start_date |-> << 0, 0, 0 >>, end_date |-> << 0, 0, 0 >>,
          is_active |-> FALSE, profit_earned |-> 0]

IdleAct ==
    [pc |-> "idle", planId |-> "none", amount |-> 0, userId |-> "none",
     start |-> 0, investment |-> NoRow, calls |-> << >>, answers |-> << >>,
     error |-> "none"]

SuccessToast == [title |-> "Plan Activated Successfully!", variant |-> "default"]
FailureToast == [title |-> "Activation Failed", variant |-> "destructive"]

\* variant: the catch block swallows the error and the call returns
ActCatchSwallow(a, err) ==
    [a EXCEPT !.pc = "returned", !.answers = Append(@, "error")]

\* the catch block: log, failure toast, rethrow (lines 60-68)
ActCatch(a, err) ==
    [a EXCEPT !.pc = "thrown", !.error = err, !.answers = Append(@, "error")]

\* activatePlan(planId, amount, userId) is called and issues the plan read
ActivatePlan(planId, amount, userId) ==
    /\ act.pc = "idle"
    /\ Len(investments) < MaxInv
    /\ act' = [IdleAct EXCEPT !.pc = "plan", !.planId = planId, !.amount = amount,
                              !.userId = userId, !.calls = << "plan" >>]
    /\ toasts' = << >>
    /\ UNCHANGED << now, gateVars, timerVars, dbVars, cyc, widgetVars >>

\* the plan read answers; on success the dates are taken and the insert issued
PlanRead(ok) ==
    /\ act.pc = "plan"
    /\ IF ok /\ act.planId \in PlanIds
       THEN /\ act' = [act EXCEPT !.pc = "insert", !.start = now,
                                  !.calls = Append(@, "insert"),
                                  !.answers = Append(@, "ok")]
            /\ toasts' = toasts
       ELSE /\ act' = ActCatch(act, "planError")
            /\ toasts' = Append(toasts, FailureToast)
    /\ UNCHANGED << now, gateVars, timerVars, dbVars, cyc, widgetVars >>

\* the insert answers; on success the balance debit is issued
InsertInvestment(ok) ==
    /\ act.pc = "insert"
    /\ IF ok
       THEN LET row == NewInvestment(Len(investments) + 1, act.userId, act.planId,
                                     act.amount, act.start)
            IN  /\ investments' = Append(investments, row)
                /\ act' = [act EXCEPT !.pc = "debit", !.investment = row,
                                      !.calls = Append(@, "debit"),
                                      !.answers = Append(@, "ok")]
                /\ toasts' = toasts
       ELSE /\ investments' = investments
            /\ act' = ActCatch(act, "investmentError")
            /\ toasts' = Append(toasts, FailureToast)
    /\ UNCHANGED << now, gateVars, timerVars, balance, lastRpc, notes, cyc, widgetVars >>

\* variant: the catch block takes the inserted row out again
TableAfterFailedDebitRollback(table, row) ==
    SelectSeq(table, LAMBDA r : r.id # row.id)

\* the table once the debit has failed: the catch block logs, toasts and
\* rethrows (60-68) and issues no call on user_investments
TableAfterFailedDebit(table, row) ==
    table

\* rpc update_user_balance(..., 'remove') answers; success toast and return
DebitBalance(ok) ==
    /\ act.pc = "debit"
    /\ IF ok
       THEN /\ balance' = UpdateUserBalance(balance, act.userId, act.amount, "remove")
            /\ lastRpc' = [user |-> act.userId, amount |-> act.amount, op |-> "remove"]
            /\ investments' = investments
            /\ act' = [act EXCEPT !.pc = "returned", !.answers = Append(@, "ok")]
            /\ toasts' = Append(toasts, SuccessToast)
       ELSE /\ balance' = balance
            /\ lastRpc' = lastRpc
            /\ investments' = TableAfterFailedDebit(investments, act.investment)
            /\ act' = ActCatch(act, "balanceError")
            /\ toasts' = Append(toasts, FailureToast)
    /\ UNCHANGED << now, gateVars, timerVars, notes, cyc, widgetVars >>

\* the caller takes the outcome of the call
ActDone ==
    /\ act.pc \in {"returned", "thrown"}
    /\ act' = IdleAct
    /\ toasts' = << >>
    /\ UNCHANGED << now, gateVars, timerVars, dbVars, cyc, widgetVars >>


\* ------------------------------------------------------- RecaptchaWrapper
Components == {1, 2}
CompOrder == << 1, 2 >>
SiteKeys == {"NULL", "", "k1", "k2"}
VerifyCallbacks == {"v1", "v2"}
ExpireCallbacks == {"NULL", "e1"}

\* answers of from('recaptcha_settings').select(...).single()
Responses ==
    {[kind |-> "fail", is_enabled |-> FALSE, site_key |-> "NULL"],
     [kind |-> "norow", is_enabled |-> FALSE, site_key |-> "NULL"],
     [kind |-> "row", is_enabled |-> FALSE, site_key |-> "k1"]}
      \cup {[kind |-> "row", is_enabled |-> TRUE, site_key |-> k] : k \in SiteKeys}

NoResp == [kind |-> "none", is_enabled |-> FALSE, site_key |-> "NULL"]

\* JavaScript truthiness of a site key (null and '' are falsy)
Truthy(k) ==
    k \notin {"NULL", ""}

\* recaptchaSettings before the query has data
Undefined == [has |-> FALSE, enabled |-> FALSE, siteKey |-> "NULL"]

\* variant: the is_enabled flag of the row is not looked at
QueryFnNoFlag(resp) ==
    IF resp.kind # "row"
    THEN [has |-> TRUE, enabled |-> FALSE, siteKey |-> "NULL"]
    ELSE [has |-> TRUE, enabled |-> TRUE, siteKey |-> resp.site_key]

\* queryFn: error (a missing row is an error of single()) or !data?.is_enabled
QueryFn(resp) ==
    IF resp.kind # "row" \/ ~resp.is_enabled
    THEN [has |-> TRUE, enabled |-> FALSE, siteKey |-> "NULL"]
    ELSE [has |-> TRUE, enabled |-> resp.is_enabled, siteKey |-> resp.site_key]

NoRender ==
    [n |-> 0, container |-> "none", sitekey |-> "NULL", callback |-> "NULL",
     expired |-> "NULL"]

NewComp ==
    [st |-> "new", isLoaded |-> FALSE, widgetId |-> Null,
     onVerify |-> "NULL", onExpire |-> "NULL"]

\* the page as the effects see and change it
World ==
    [g |-> grecaptcha, s |-> scripts, c |-> comp, r |-> lastRender, n |-> renderCount]

\* if (!recaptchaSettings?.enabled || !recaptchaSettings?.siteKey) return
LoadGuard(st) ==
    st.enabled /\ Truthy(st.siteKey)

\* first effect (lines 39-61): loadRecaptcha
Effect1(wd, w, st) ==
    IF ~LoadGuard(st)
    THEN wd
    ELSE IF wd.g
         THEN [wd EXCEPT !.c[w].isLoaded = TRUE]
         ELSE [wd EXCEPT !.s = Append(@, [owner |-> w, loaded |-> FALSE])]

\* variant: the site key is not tested before rendering
RenderGuardNoKey(wd, w, st) ==
    wd.c[w].isLoaded /\ st.enabled /\ wd.g

\* isLoaded && enabled && siteKey && window.grecaptcha
RenderGuard(wd, w, st) ==
    wd.c[w].isLoaded /\ st.enabled /\ Truthy(st.siteKey) /\ wd.g

\* second effect (lines 63-72): grecaptcha.render and setWidgetId
Effect2(wd, w, st) ==
    IF RenderGuard(wd, w, st)
    THEN [wd EXCEPT !.r[w] = [n |-> wd.n + 1, container |-> "recaptcha-container",
                              sitekey |-> st.siteKey,
                              callback |-> wd.c[w].onVerify,
                              expired |-> wd.c[w].onExpire],
                    !.c[w].widgetId = wd.n,
                    !.n = @ + 1]
    ELSE wd

\* both effects of every mounted component, after recaptchaSettings changed
RECURSIVE SettingsEffects(_, _, _)
SettingsEffects(wd, order, st) ==
    IF order = << >>
    THEN wd
    ELSE LET w == Head(order)
         IN  SettingsEffects(
                 IF wd.c[w].st = "mounted" THEN Effect2(Effect1(wd, w, st), w, st) ELSE wd,
                 Tail(order), st)

\* the component's output: null unless recaptchaSettings?.enabled (74-82)
RendersContainer(w) ==
    comp[w].st = "mounted" /\ settings.enabled

Commit(wd) ==
    /\ grecaptcha' = wd.g
    /\ scripts' = wd.s
    /\ comp' = wd.c
    /\ lastRender' = wd.r
    /\ renderCount' = wd.n

hookVars == << now, gateVars, timerVars, dbVars, cyc, actVars >>

\* a component mounts with its callbacks: first render and both effects
WMount(w, v, e) ==
    /\ comp[w].st = "new"
    /\ Commit(LET wd == [World EXCEPT !.c[w] = [NewComp EXCEPT !.st = "mounted",
                                                  !.onVerify = v, !.onExpire = e]]
              IN  Effect2(Effect1(wd, w, settings), w, settings))
    /\ UNCHANGED << hookVars, settings, fetches, lastResp, propChanges >>

\* the configuration read answers; new data re-renders every component
FetchResolve(resp) ==
    /\ fetches < MaxFetches
    /\ \E w \in Components : comp[w].st = "mounted"
    /\ fetches' = fetches + 1
    /\ lastResp' = resp
    /\ settings' = QueryFn(resp)
    /\ Commit(IF QueryFn(resp) # settings
              THEN SettingsEffects(World, CompOrder, QueryFn(resp))
              ELSE World)
    /\ UNCHANGED << hookVars, propChanges >>

\* the caller passes other callbacks: the second effect runs again
PropsChange(w, v, e) ==
    /\ comp[w].st = "mounted"
    /\ propChanges < MaxPropChanges
    /\ << v, e >> # << comp[w].onVerify, comp[w].onExpire >>
    /\ propChanges' = propChanges + 1
    /\ Commit(Effect2([World EXCEPT !.c[w].onVerify = v, !.c[w].onExpire = e], w, settings))
    /\ UNCHANGED << hookVars, settings, fetches, lastResp >>

\* positions a script element can take in document.head
ScriptSlots == 1 .. Cardinality(Components) * (1 + MaxFetches)

\* script k finishes loading: the global appears, onload sets isLoaded
ScriptLoad(k) ==
    /\ k \in 1 .. Len(scripts)
    /\ ~scripts[k].loaded
    /\ Commit(LET w == scripts[k].owner
                  wd == [World EXCEPT !.g = TRUE, !.s[k].loaded = TRUE]
              IN  IF wd.c[w].st = "mounted" /\ ~wd.c[w].isLoaded
                  THEN Effect2([wd EXCEPT !.c[w].isLoaded = TRUE], w, settings)
                  ELSE wd)
    /\ UNCHANGED << hookVars, settings, fetches, lastResp, propChanges >>

\* a component unmounts (the effects have no cleanup)
WUnmount(w) ==
    /\ comp[w].st = "mounted"
    /\ comp' = [comp EXCEPT ![w].st = "unmounted"]
    /\ UNCHANGED << hookVars, grecaptcha, scripts, settings, fetches, lastResp,
                    lastRender, renderCount, propChanges >>

\* ---------------------------------------------------------- initial states
HookInit ==
    /\ now = 0
    /\ status = [i \in Instances |-> "new"]
    /\ lastProfitCheckRef = [i \in Instances |-> Null]
    /\ intervalRef = [i \in Instances |-> Null]
    /\ timers = {}
    /\ gateSeq = [i \in Instances |-> 0]
    /\ gateResult = [i \in Instances |-> FALSE]
    /\ trueDays = [i \in Instances |-> {}]
    /\ balance = [u \in Users |-> 0]
    /\ lastRpc = NoRpc
    /\ notes = [u \in Users |-> 0]
    /\ cyc = [i \in Instances |-> [d \in Days |-> IdleCycle]]
    /\ act = IdleAct
    /\ toasts = << >>

WidgetInit ==
    /\ grecaptcha = FALSE
    /\ scripts = << >>
    /\ settings = Undefined
    /\ fetches = 0
    /\ lastResp = NoResp
    /\ comp = [w \in Components |-> NewComp]
    /\ lastRender = [w \in Components |-> NoRender]
    /\ renderCount = 0
    /\ propChanges = 0

\* the table two activatePlan calls have left behind at instant 0 of day 0
StartTimes == {0}

InitTables ==
    {<< NewInvestment(1, "u1", "p1", 1000, s), NewInvestment(2, "u2", "p2", 500, 0) >> :
        s \in StartTimes}

\* --------------------------------------------------------- specifications
\* the accrual process of one hook instance over existing investments
Init ==
    /\ HookInit
    /\ WidgetInit
    /\ investments \in InitTables

Next ==
    \/ \E i \in Instances : Mount(i)
    \/ \E i \in Instances : TimerTick(i)
    \/ \E i \in Instances : Unmount(i)
    \/ Advance(TimesOfDay)
    \/ \E i \in Instances, d \in Days, ok \in BOOLEAN : Fetch(i, d, ok)
    \/ \E i \in Instances, d \in Days, ok \in BOOLEAN : ReadInvestment(i, d, ok)
    \/ \E i \in Instances, d \in Days, ok \in BOOLEAN : Deactivate(i, d, ok)
    \/ \E i \in Instances, d \in Days, ok \in BOOLEAN : UpdateProfit(i, d, ok)
    \/ \E i \in Instances, d \in Days, ok \in BOOLEAN : CreditBalance(i, d, ok)
    \/ \E i \in Instances, d \in Days, ok \in BOOLEAN : Notify(i, d, ok)

Spec == Init /\ [][Next]_vars

\* shouldGenerateProfit called at arbitrary non-decreasing instants
CallGate(i) ==
    /\ ShouldGenerateProfit(i)
    /\ UNCHANGED << now, timerVars, dbVars, cyc, actVars, widgetVars >>

InitGate ==
    /\ HookInit
    /\ WidgetInit
    /\ investments = << >>

NextGate ==
    \/ \E i \in Instances : CallGate(i)
    \/ Advance(GateTimes)

SpecGate == InitGate /\ [][NextGate]_vars

\* activatePlan calls against an empty table
InitActivate ==
    /\ HookInit
    /\ WidgetInit
    /\ investments = << >>

NextActivate ==
    \/ \E p \in PlanIds \cup {MissingPlan}, a \in Amounts, u \in Users : ActivatePlan(p, a, u)
    \/ \E ok \in BOOLEAN : PlanRead(ok)
    \/ \E ok \in BOOLEAN : InsertInvestment(ok)
    \/ \E ok \in BOOLEAN : DebitBalance(ok)
    \/ ActDone
    \/ Advance(TimesOfDay)

SpecActivate == InitActivate /\ [][NextActivate]_vars

\* activatePlan calls by one user while a hook instance runs its accrual
LifePlans == {"p1"}
LifeAmounts == {1000}
LifeUsers == {"u1"}

\* the user activates a plan while holding no investment yet
FirstActivation(planId, amount, userId) ==
    /\ investments = << >>
    /\ ActivatePlan(planId, amount, userId)

NextLife ==
    \/ \E p \in LifePlans, a \in LifeAmounts, u \in LifeUsers : FirstActivation(p, a, u)
    \/ \E ok \in BOOLEAN : PlanRead(ok)
    \/ \E ok \in BOOLEAN : InsertInvestment(ok)
    \/ \E ok \in BOOLEAN : DebitBalance(ok)
    \/ ActDone
    \/ \E i \in Instances : Mount(i)
    \/ \E i \in Instances : TimerTick(i)
    \/ \E i \in Instances : Unmount(i)
    \/ Advance(TimesOfDay)
    \/ \E i \in Instances, d \in Days, ok \in BOOLEAN : Fetch(i, d, ok)
    \/ \E i \in Instances, d \in Days, ok \in BOOLEAN : ReadInvestment(i, d, ok)
    \/ \E i \in Instances, d \in Days, ok \in BOOLEAN : Deactivate(i, d, ok)
    \/ \E i \in Instances, d \in Days, ok \in BOOLEAN : UpdateProfit(i, d, ok)
    \/ \E i \in Instances, d \in Days, ok \in BOOLEAN : CreditBalance(i, d, ok)
    \/ \E i \in Instances, d \in Days, ok \in BOOLEAN : Notify(i, d, ok)

SpecLife == InitActivate /\ [][NextLife]_vars

\* two hook instances alive at once (two tabs, or a page and its reload)
\* over one investment made the day before, followed for MaxTabDays days
Tabs == {1, 2}
TabTimes == {0, 2, 60}
TabStart == DayMinutes
TabHorizon ==
    IF TabStart + MaxTabDays * DayMinutes - 1 < Horizon
    THEN TabStart + MaxTabDays * DayMinutes - 1
    ELSE Horizon

\* the clock of the two tabs
AdvanceTabs ==
    /\ Advance(TabTimes)
    /\ now' <= TabHorizon

InitTabs ==
    /\ now = TabStart
    /\ status = [i \in Tabs |-> "new"]
    /\ lastProfitCheckRef = [i \in Tabs |-> Null]
    /\ intervalRef = [i \in Tabs |-> Null]
    /\ timers = {}
    /\ gateSeq = [i \in Tabs |-> 0]
    /\ gateResult = [i \in Tabs |-> FALSE]
    /\ trueDays = [i \in Tabs |-> {}]
    /\ balance = [u \in Users |-> 0]
    /\ lastRpc = NoRpc
    /\ notes = [u \in Users |-> 0]
    /\ cyc = [i \in Tabs |-> [d \in Days |-> IdleCycle]]
    /\ act = IdleAct
    /\ toasts = << >>
    /\ WidgetInit
    /\ investments = << NewInvestment(1, "u1", "p1", 1000, 2) >>

NextTabs ==
    \/ \E i \in Tabs : Mount(i)
    \/ \E i \in Tabs : TimerTick(i)
    \/ \E i \in Tabs : Unmount(i)
    \/ AdvanceTabs
    \/ \E i \in Tabs, d \in Days, ok \in BOOLEAN : Fetch(i, d, ok)
    \/ \E i \in Tabs, d \in Days, ok \in BOOLEAN : ReadInvestment(i, d, ok)
    \/ \E i \in Tabs, d \in Days, ok \in BOOLEAN : Deactivate(i, d, ok)
    \/ \E i \in Tabs, d \in Days, ok \in BOOLEAN : UpdateProfit(i, d, ok)
    \/ \E i \in Tabs, d \in Days, ok \in BOOLEAN : CreditBalance(i, d, ok)
    \/ \E i \in Tabs, d \in Days, ok \in BOOLEAN : Notify(i, d, ok)

SpecTabs == InitTabs /\ [][NextTabs]_vars

\* one audited hook instance, never remounted, over one investment
InitAudit ==
    /\ now = 0
    /\ status = [i \in Audited |-> "new"]
    /\ lastProfitCheckRef = [i \in Audited |-> Null]
    /\ intervalRef = [i \in Audited |-> Null]
    /\ timers = {}
    /\ gateSeq = [i \in Audited |-> 0]
    /\ gateResult = [i \in Audited |-> FALSE]
    /\ trueDays = [i \in Audited |-> {}]
    /\ balance = [u \in Users |-> 0]
    /\ lastRpc = NoRpc
    /\ notes = [u \in Users |-> 0]
    /\ cyc = [i \in Audited |-> [d \in Days |-> IdleCycle]]
    /\ act = IdleAct
    /\ toasts = << >>
    /\ WidgetInit
    /\ investments = << NewInvestment(1, "u1", "p1", 1000, 0) >>

NextAudit ==
    \/ \E i \in Audited : Mount(i)
    \/ \E i \in Audited : TimerTick(i)
    \/ \E i \in Audited : Unmount(i)
    \/ Advance(TimesOfDay)
    \/ \E i \in Audited, d \in Days, ok \in BOOLEAN : Fetch(i, d, ok)
    \/ \E i \in Audited, d \in Days, ok \in BOOLEAN : ReadInvestment(i, d, ok)
    \/ \E i \in Audited, d \in Days, ok \in BOOLEAN : Deactivate(i, d, ok)
    \/ \E i \in Audited, d \in Days, ok \in BOOLEAN : UpdateProfit(i, d, ok)
    \/ \E i \in Audited, d \in Days, ok \in BOOLEAN : CreditBalance(i, d, ok)
    \/ \E i \in Audited, d \in Days, ok \in BOOLEAN : Notify(i, d, ok)

SpecAudit == InitAudit /\ [][NextAudit]_vars

\* the widget component
InitWidget ==
    /\ HookInit
    /\ WidgetInit
    /\ investments = << >>

NextWidget ==
    \/ \E w \in Components, v \in VerifyCallbacks, e \in ExpireCallbacks : WMount(w, v, e)
    \/ \E resp \in Responses : FetchResolve(resp)
    \/ \E w \in Components, v \in VerifyCallbacks, e \in ExpireCallbacks : PropsChange(w, v, e)
    \/ \E k \in ScriptSlots : ScriptLoad(k)
    \/ \E w \in Components : WUnmount(w)

SpecWidget == InitWidget /\ [][NextWidget]_vars


\* ------------------------------------------------------------------ claims
InWindowOfDay(t) ==
    t % DayMinutes < 5

\* C1: for one hook instance, a shouldGenerateProfit call returns true if and
\* only if the time of day is in [00:00, 00:05) and no earlier call of that
\* instance on the same calendar day returned true; the day marker changes
\* only on a call that returns true.
C1_GateOncePerDay ==
    [][\A i \in Instances :
          /\ gateSeq'[i] # gateSeq[i] =>
                (gateResult'[i] <=>
                    (InWindowOfDay(now) /\ (now \div DayMinutes) \notin trueDays[i]))
          /\ lastProfitCheckRef'[i] # lastProfitCheckRef[i] =>
                (gateSeq'[i] # gateSeq[i] /\ gateResult'[i])]_vars

\* a repeat call inside the window, after the first true of that day, returned false
C1_Witness ==
    /\ InWindowOfDay(now)
    /\ (now \div DayMinutes) \in trueDays[1]
    /\ now \div DayMinutes >= 1
    /\ ~gateResult[1]

LastOf(q) == q[Len(q)]

\* C2: an activatePlan call in which every remote call succeeds issues plan
\* read, insert and debit in this order, debits exactly the amount from the
\* user with operation 'remove', then shows the success toast, and returns
\* the inserted record: active, profit_earned 0, end_date duration_days
\* calendar days after start_date.
C2_ActivateSuccess ==
    [][(act.pc = "debit" /\ act'.pc \in {"returned", "thrown"}
           /\ act'.answers = << "ok", "ok", "ok" >>) =>
          /\ act'.pc = "returned"
          /\ act.planId \in PlanIds
          /\ act'.calls = << "plan", "insert", "debit" >>
          /\ toasts = << >> /\ toasts' = << SuccessToast >>
          /\ balance' = [balance EXCEPT ![act.userId] = @ - act.amount]
          /\ lastRpc' = [user |-> act.userId, amount |-> act.amount, op |-> "remove"]
          /\ act'.investment = investments'[act'.investment.id]
          /\ act'.investment.id = Len(investments')
          /\ act'.investment.user_id = act.userId
          /\ act'.investment.plan_id = act.planId
          /\ act'.investment.amount = act.amount
          /\ act'.investment.is_active
          /\ act'.investment.profit_earned = 0
          /\ act'.investment.end_date[1] =
                act'.investment.start_date[1] + PlanTable[act.planId].duration_days
          /\ act'.investment.end_date[2] = act'.investment.start_date[2]
          /\ act'.investment.end_date[3] = act'.investment.start_date[3]]_vars

\* a call on the two-day plan has returned its record
C2_Witness ==
    /\ act.pc = "returned"
    /\ act.planId = "p2"
    /\ act.investment.start_date[3] = 2
    /\ balance[act.userId] = 0 - act.amount

\* C3: a failing step of activatePlan aborts every later step (no insert and
\* no debit after a failed plan read, no debit after a failed insert), no
\* success toast fires, exactly one failure toast is shown and the error of
\* the failing step is thrown; a call ends with the success toast and the
\* record, or with the failure toast and the error, never both.
C3_ActivateFailure ==
    /\ [](act.pc \in {"returned", "thrown"} =>
            /\ Len(act.answers) = Len(act.calls)
            /\ \A k \in 1 .. Len(act.answers) - 1 : act.answers[k] = "ok"
            /\ (act.pc = "thrown" <=> LastOf(act.answers) = "error"))
    /\ [](act.pc = "thrown" =>
            /\ toasts = << FailureToast >>
            /\ act.error = (CASE LastOf(act.calls) = "plan" -> "planError"
                              [] LastOf(act.calls) = "insert" -> "investmentError"
                              [] LastOf(act.calls) = "debit" -> "balanceError")
            /\ act.calls \in {<< "plan" >>, << "plan", "insert" >>,
                              << "plan", "insert", "debit" >>})
    /\ [](act.pc = "returned" =>
            /\ toasts = << SuccessToast >>
            /\ act.error = "none"
            /\ act.investment.id # 0)
    /\ [][(act.pc # "thrown" /\ act'.pc = "thrown") =>
            /\ balance' = balance
            /\ lastRpc' = lastRpc
            /\ investments' = investments
            /\ (act'.error = "planError" => act'.investment = NoRow)
            /\ (act'.error = "investmentError" => act'.investment = NoRow)]_vars

\* the debit failed after the insert had succeeded
C3_Witness ==
    /\ act.pc = "thrown"
    /\ act.error = "balanceError"
    /\ Len(investments) = 1


InRecord == {"read", "deactivate", "update", "credit", "notify"}

\* the instant stored in an ISO timestamp
IsoInstant(e) ==
    e[1] * 1440 + e[2] * 60 + e[3]

\* amount * percentage / 100 of a stored row
RowProfit(r) ==
    (r.amount * PlanTable[r.plan_id].daily_profit_percentage) \div 100

C5_AccrualAmounts ==
    [][\A i \in Instances, d \in Days :
          LET id == Head(cyc[i][d].queue).id
              row == investments[id]
          IN
          /\ (cyc[i][d].pc = "read" /\ cyc'[i][d].pc = "update") =>
                /\ cyc'[i][d].inv.profit_earned = row.profit_earned
                /\ cyc'[i][d].inv.user_id = row.user_id
          /\ (cyc[i][d].pc = "update" /\ cyc'[i][d].pc = "credit") =>
                /\ investments' = [investments EXCEPT ![id].profit_earned =
                                      cyc[i][d].inv.profit_earned + RowProfit(row)]
                /\ (row.amount = 1000 /\ row.plan_id = "p1") =>
                      investments'[id].profit_earned = cyc[i][d].inv.profit_earned + 20
                /\ balance' = balance
                /\ notes' = notes
          /\ (cyc[i][d].pc = "credit" /\ cyc'[i][d].pc = "notify") =>
                /\ balance' = [balance EXCEPT ![row.user_id] = @ + RowProfit(row)]
                /\ lastRpc' = [user |-> row.user_id, amount |-> RowProfit(row), op |-> "add"]
                /\ (row.amount = 1000 /\ row.plan_id = "p1") =>
                      balance'[row.user_id] - balance[row.user_id] = 20
                /\ investments' = investments
                /\ notes' = notes
          /\ (cyc[i][d].pc = "notify" /\ cyc'[i][d].pc # "notify" /\ ~cyc'[i][d].err) =>
                /\ notes' = [notes EXCEPT ![row.user_id] = @ + 1]
                /\ investments' = investments
                /\ balance' = balance]_vars

\* one cycle went through both records without an error
C5_Witness ==
    \E i \in Instances, d \in Days :
        /\ cyc[i][d].pc = "done"
        /\ cyc[i][d].started = << 1, 2 >>
        /\ cyc[i][d].failed = {}
        /\ investments[1].profit_earned = 20
        /\ investments[1].is_active
        /\ balance = [u \in Users |-> 20]
        /\ notes = [u \in Users |-> 1]

\* C6: within one cycle the fetched records are processed one after the
\* other in fetch order, and an error while processing one record is caught
\* there: the loop goes on with the next fetched record, and a cycle that
\* has ended after a successful fetch has started every fetched record.
C6_RecordsIndependent ==
    /\ [](\A i \in Instances, d \in Days :
            LET c == cyc[i][d] IN
            /\ Len(c.started) <= Len(c.fetched)
            /\ c.started = SubSeq(c.fetched, 1, Len(c.started))
            /\ c.failed \subseteq {c.started[k] : k \in 1 .. Len(c.started)}
            /\ (c.pc = "done" => c.started = c.fetched)
            /\ (c.pc \in {"none", "fetch", "aborted"} => c.fetched = << >>)
            /\ (c.pc \in InRecord =>
                  /\ c.started # << >>
                  /\ Head(c.queue).id = LastOf(c.started)
                  /\ Len(c.queue) = Len(c.fetched) - Len(c.started) + 1))
    /\ [][\A i \in Instances, d \in Days :
            (cyc'[i][d].failed # cyc[i][d].failed /\ Len(cyc[i][d].queue) > 1) =>
               /\ cyc'[i][d].pc = "read"
               /\ Head(cyc'[i][d].queue) = cyc[i][d].queue[2]]_vars

\* the first record failed and the second was still credited in that cycle
C6_Witness ==
    \E i \in Instances :
        /\ cyc[i][0].pc = "done"
        /\ cyc[i][0].fetched = << 1, 2 >>
        /\ cyc[i][0].failed = {1}
        /\ \A d \in Days \ {0} : cyc[i][d].pc = "none"
        /\ investments[2].profit_earned = 20
        /\ balance["u2"] = 20


\* C7 as written: at most one script element for the library is ever
\* appended, whatever the mounts and configuration changes
C7_ScriptOnce ==
    Len(scripts) <= 1

\* the last configuration answer was a failure, a missing row or a disabled row
DisabledAnswer(resp) ==
    \/ resp.kind \in {"fail", "norow"}
    \/ resp.kind = "row" /\ ~resp.is_enabled

\* C8: after a configuration answer that is a fetch failure, a missing row
\* or a row with is_enabled = false, the query holds the data
\* {enabled: false} (no error state), no component renders the container,
\* and no step taken under such an answer appends a script or calls
\* grecaptcha.render.
C8_DisabledRendersNothing ==
    /\ [](DisabledAnswer(lastResp) =>
            /\ settings.has /\ ~settings.enabled
            /\ \A w \in Components : ~RendersContainer(w))
    /\ [][DisabledAnswer(lastResp') =>
            /\ Len(scripts') = Len(scripts)
            /\ renderCount' = renderCount
            /\ lastRender' = lastRender]_vars

\* a fetch failure reached a mounted component after the widget had been rendered
C8_Witness ==
    /\ lastResp.kind = "fail"
    /\ \E w \in Components : comp[w].st = "mounted" /\ comp[w].isLoaded
    /\ renderCount > 0
    /\ grecaptcha

\* C9 as written: with is_enabled = true and a missing or empty site key
\* no component renders the container
C9_MisconfiguredRendersNothing ==
    (settings.enabled /\ settings.siteKey \in {"NULL", ""}) =>
        \A w \in Components : ~RendersContainer(w)

\* C10: grecaptcha.render is called only when a script load has completed
\* and the global exists, the calling component has isLoaded set and the
\* configuration is enabled with a non-empty site key; the call passes that
\* site key and the component's current onVerify and onExpire, and targets
\* the fixed container.
C10_RenderOnlyWhenReady ==
    [][\A w \in Components :
          lastRender'[w] # lastRender[w] =>
             /\ grecaptcha'
             /\ \E k \in 1 .. Len(scripts') : scripts'[k].loaded
             /\ comp'[w].st = "mounted"
             /\ comp'[w].isLoaded
             /\ lastResp'.kind = "row" /\ lastResp'.is_enabled
             /\ lastResp'.site_key \notin {"NULL", ""}
             /\ lastRender'[w].sitekey = lastResp'.site_key
             /\ lastRender'[w].callback = comp'[w].onVerify
             /\ lastRender'[w].expired = comp'[w].onExpire
             /\ lastRender'[w].container = "recaptcha-container"
             /\ lastRender'[w].n \in renderCount + 1 .. renderCount'
             /\ comp'[w].widgetId = lastRender'[w].n - 1]_vars

\* the widget was rendered again with changed callbacks under the second key
C10_Witness ==
    \E w \in Components :
        /\ lastRender[w].n >= 2
        /\ lastRender[w].sitekey = "k2"
        /\ lastRender[w].callback = "v2"
        /\ lastRender[w].expired = "e1"
        /\ propChanges = 1


\* the ids of the rows of a table that are active and end at or after instant stamp
EligibleIds(table, stamp) ==
    {k \in 1 .. Len(table) :
        /\ table[k].is_active
        /\ IsoInstant(table[k].end_date) >= IsoInstant(stamp)}

\* C11: when the insert of activatePlan has succeeded and the balance debit
\* then fails, the call ends with the debit's error while the inserted row
\* stays in the table as it was, active, and no balance has changed; only
\* the expiry branch of an accrual cycle ever clears is_active, and a batch
\* fetch returns every row that is active and not past its end_date, so the
\* undebited row is picked up for accrual like any other.
C11_NoCompensation ==
    /\ [][(act.pc = "debit" /\ act'.pc = "thrown") =>
            /\ act'.error = "balanceError"
            /\ act.investment.is_active
            /\ act.investment.id \in 1 .. Len(investments)
            /\ investments' = investments
            /\ balance' = balance
            /\ lastRpc' = lastRpc]_vars
    /\ [][\A k \in 1 .. Len(investments) :
            /\ Len(investments') >= Len(investments)
            /\ investments'[k].is_active # investments[k].is_active =>
                  \E i \in Instances, d \in Days :
                      /\ cyc[i][d].pc = "deactivate"
                      /\ cyc[i][d].inv.id = k
                      /\ cyc'[i][d].pc # "deactivate"]_vars
    /\ [][\A i \in Instances, d \in Days :
            (cyc[i][d].pc = "fetch" /\ cyc'[i][d].pc \notin {"fetch", "aborted"}) =>
               {cyc'[i][d].fetched[k] : k \in 1 .. Len(cyc'[i][d].fetched)} =
                  EligibleIds(investments, cyc[i][d].fetchNow)]_vars

\* the debit failed, and the undebited row has since been credited a day's profit
C11_Witness ==
    /\ act.pc = "thrown"
    /\ act.error = "balanceError"
    /\ investments[act.investment.id].is_active
    /\ investments[act.investment.id].profit_earned = 20
    /\ balance[act.userId] = 20
    /\ notes[act.userId] = 1


\* C12: every hook instance has its own interval timer and its own day
\* marker: the gate of an instance answers from the time of day and that
\* instance's own earlier answers only, whatever the other instance did on
\* that day, and every completed credit step adds dailyProfit to the
\* owner's balance; so two instances alive in the window of one day both
\* start a cycle and the same investment is credited twice on that day.
C12_InstancesNotCoordinated ==
    /\ [][\A i \in Tabs :
            gateSeq'[i] # gateSeq[i] =>
               (gateResult'[i] <=>
                   (InWindowOfDay(now) /\ (now \div DayMinutes) \notin trueDays[i]))]_vars
    /\ [](\A i \in Tabs :
            status[i] = "mounted" =>
               /\ intervalRef[i] = i
               /\ Cardinality({tm \in timers : tm.id = i}) = 1)
    /\ [][\A i \in Tabs, d \in Days :
            (cyc[i][d].pc = "credit" /\ cyc'[i][d].pc = "notify") =>
               balance' = [balance EXCEPT ![cyc[i][d].inv.user_id] =
                              @ + RowProfit(investments[cyc[i][d].inv.id])]]_vars

\* both tabs are mounted, both gates returned true on the same day and the
\* investment was credited by each of them
C12_Witness ==
    /\ \A i \in Tabs :
          /\ status[i] = "mounted"
          /\ trueDays[i] = {1}
          /\ cyc[i][1].pc = "done"
          /\ cyc[i][1].fetched = << 1 >>
          /\ cyc[i][1].failed = {}
    /\ investments[1].profit_earned = 40
    /\ balance["u1"] = 40
    /\ notes["u1"] = 2

\* C13: the profit_earned update writes the value read earlier plus
\* dailyProfit, whatever the row holds by then, while the balance credit is
\* an increment; when an instance writes after another instance that had
\* read the same profit_earned, it writes the very value the other one
\* wrote, so profit_earned has grown by one dailyProfit and the balance by
\* two.
C13_LostUpdate ==
    /\ [][\A i \in Tabs, d \in Days :
            LET id == cyc[i][d].inv.id
                dp == RowProfit(investments[id])
            IN
            /\ (cyc[i][d].pc = "update" /\ cyc'[i][d].pc = "credit") =>
                  /\ investments' = [investments EXCEPT ![id].profit_earned =
                                        cyc[i][d].inv.profit_earned + dp]
                  /\ balance' = balance
                  /\ \A j \in Tabs \ {i}, e \in Days :
                        (/\ cyc[j][e].pc \in {"credit", "notify"}
                         /\ cyc[j][e].inv.id = id
                         /\ cyc[j][e].inv.profit_earned = cyc[i][d].inv.profit_earned) =>
                           investments'[id].profit_earned =
                              cyc[j][e].inv.profit_earned + dp
            /\ (cyc[i][d].pc = "credit" /\ cyc'[i][d].pc = "notify") =>
                  /\ balance'[cyc[i][d].inv.user_id] =
                        balance[cyc[i][d].inv.user_id] + dp
                  /\ investments' = investments]_vars

\* both tabs went through the record without an error: the balance holds
\* two credits, profit_earned one increase
C13_Witness ==
    /\ \A i \in Tabs :
          /\ cyc[i][1].pc = "done"
          /\ cyc[i][1].fetched = << 1 >>
          /\ cyc[i][1].failed = {}
    /\ investments[1].profit_earned = 20
    /\ balance["u1"] = 40


\* the cycles of instance i that increased profit_earned of record k on day dd
UpdatesOn(i, k, dd) ==
    {d \in Days : << k, dd >> \in cyc[i][d].updated}

\* the cycles of instance i that credited the balance for record k on day dd
CreditsOn(i, k, dd) ==
    {d \in Days : << k, dd >> \in cyc[i][d].credited}

\* C14 as written: with one hook instance that is never remounted, every
\* investment receives at most one profit_earned increase and at most one
\* balance credit on any calendar day, and the instance starts at most one
\* cycle per calendar day
C14_OncePerDay ==
    \A i \in Audited, k \in 1 .. Len(investments), dd \in Days :
        /\ Cardinality(UpdatesOn(i, k, dd)) <= 1
        /\ Cardinality(CreditsOn(i, k, dd)) <= 1
        /\ cyc[i][dd].pc # "none" => dd \in trueDays[i]


\* C15: a batch fetch that fails ends its cycle there: the step changes no
\* row, no balance and no notification and leaves the instance and its
\* timer as they were; the cycle has fetched and started nothing and takes
\* no further step; the day marker was set when the gate returned true, so
\* the instance's gate returns false for the rest of that day and the
\* cycle is not started again.
C15_FetchFailureAborts ==
    /\ [][\A i \in Audited, d \in Days :
            (cyc[i][d].pc = "fetch" /\ cyc'[i][d] # cyc[i][d] /\ cyc'[i][d].err) =>
               /\ cyc'[i][d].pc = "aborted"
               /\ UNCHANGED dbVars
               /\ UNCHANGED timerVars
               /\ UNCHANGED gateVars]_vars
    /\ [](\A i \in Audited, d \in Days :
            cyc[i][d].pc = "aborted" =>
               /\ cyc[i][d].fetched = << >>
               /\ cyc[i][d].started = << >>
               /\ cyc[i][d].failed = {}
               /\ cyc[i][d].inv = NoInv
               /\ d \in trueDays[i]
               /\ (now \div DayMinutes = d => lastProfitCheckRef[i] = d))
    /\ [][\A i \in Audited, d \in Days :
            cyc[i][d].pc = "aborted" =>
               /\ cyc'[i][d] = cyc[i][d]
               /\ (now \div DayMinutes = d /\ gateSeq'[i] # gateSeq[i]) => ~gateResult'[i]]_vars

\* the fetch of day 0 failed; the instance stayed mounted into the next day
\* and nothing was written for that day
C15_Witness ==
    /\ cyc[3][0].pc = "aborted"
    /\ status[3] = "mounted"
    /\ now \div DayMinutes = 1
    /\ cyc[3][1].pc = "none"
    /\ \A k \in 1 .. Len(investments) : investments[k].profit_earned = 0
    /\ balance = [u \in Users |-> 0]
    /\ notes = [u \in Users |-> 0]


\* the due time of the live timer of instance i (Null when it has none)
DueOf(i) ==
    IF \E tm \in timers : tm.id = i
    THEN (CHOOSE tm \in timers : tm.id = i).due
    ELSE Null

\* C16: a hook instance runs the gated check once in the step that mounts
\* it and afterwards only when its interval timer fires, one hour after
\* the mount or after its previous firing; the clock never passes a firing
\* that falls in the window; the instance holds exactly one live timer
\* while mounted and none otherwise; the cleanup clears the timer and sets
\* the handle to null, and after it the instance runs no check.
C16_TimerLifecycle ==
    /\ [](\A i \in Audited :
            /\ Cardinality({tm \in timers : tm.id = i}) <= 1
            /\ (status[i] = "mounted" <=> [id |-> i, due |-> DueOf(i)] \in timers)
            /\ (status[i] = "mounted" <=> intervalRef[i] # Null)
            /\ (status[i] = "mounted" => DueOf(i) >= now))
    /\ [][\A i \in Audited :
            /\ (status[i] = "new" /\ status'[i] = "mounted") =>
                  /\ gateSeq'[i] # gateSeq[i]
                  /\ timers' = timers \cup {[id |-> i, due |-> now + 60]}
            /\ (status[i] # "new" /\ gateSeq'[i] # gateSeq[i]) =>
                  /\ status[i] = "mounted" /\ status'[i] = "mounted"
                  /\ DueOf(i) = now
                  /\ timers' = (timers \ {[id |-> i, due |-> now]})
                                   \cup {[id |-> i, due |-> now + 60]}
            /\ (status[i] = "mounted" /\ now' # now) =>
                  /\ DueOf(i) > now
                  /\ DueOf(i)' % 60 = DueOf(i) % 60
                  /\ DueOf(i)' >= now' /\ DueOf(i)' < now' + 60
                  /\ \A u \in now .. now' - 1 :
                        ((u - DueOf(i)) % 60 = 0 /\ u >= DueOf(i)) => ~InWindowOfDay(u)
            /\ (status[i] = "mounted" /\ status'[i] = "unmounted") =>
                  /\ intervalRef'[i] = Null
                  /\ timers' = {tm \in timers : tm.id # i}
            /\ status[i] = "unmounted" =>
                  /\ status'[i] = "unmounted"
                  /\ gateSeq'[i] = gateSeq[i]
                  /\ lastProfitCheckRef'[i] = lastProfitCheckRef[i]]_vars

\* the instance ran its check at mount and at a tick in the window of the
\* next day, and was unmounted afterwards
C16_Witness ==
    /\ status[3] = "unmounted"
    /\ trueDays[3] = {0, 1}
    /\ timers = {}
    /\ intervalRef[3] = Null


\* C17: the timer of an instance is due at the minute of the hour at which
\* the instance was mounted, and stays so; an instance mounted at minute 5
\* or later has had no check return true, has started no cycle on any day
\* and has no marker, however far the clock has moved, and no row or
\* balance has been written.
C17_LateMountNeverAccrues ==
    /\ [][\A i \in Audited :
            /\ (status[i] = "new" /\ status'[i] = "mounted") =>
                  DueOf(i)' % 60 = now % 60
            /\ (status[i] = "mounted" /\ status'[i] = "mounted") =>
                  DueOf(i)' % 60 = DueOf(i) % 60
            /\ trueDays'[i] # trueDays[i] =>
                  /\ status'[i] = "mounted"
                  /\ DueOf(i)' % 60 < 5]_vars
    /\ [](\A i \in Audited :
            (status[i] = "mounted" /\ DueOf(i) % 60 >= 5) =>
               /\ trueDays[i] = {}
               /\ lastProfitCheckRef[i] = Null
               /\ \A d \in Days : cyc[i][d] = IdleCycle
               /\ \A k \in 1 .. Len(investments) :
                     investments[k].profit_earned = 0 /\ investments[k].is_active
               /\ balance = [u \in Users |-> 0]
               /\ notes = [u \in Users |-> 0])

\* mounted at 00:05 of day 0, the instance has just run its check at 00:05
\* of day 1: the window of day 1 went by without a cycle
C17_Witness ==
    /\ status[3] = "mounted"
    /\ now = 1445
    /\ DueOf(3) = 1505
    /\ gateSeq[3] = 0
    /\ trueDays[3] = {}
    /\ \A d \in Days : cyc[3][d].pc = "none"


\* the ids a cycle has fetched
FetchedSet(c) ==
    {c.fetched[k] : k \in 1 .. Len(c.fetched)}

\* C18: a successful batch fetch returns exactly the rows that are active
\* and whose end_date is not before the instant of the request, and
\* end_date never changes; so a cycle never processes a row that had
\* expired before the cycle started, the expiry branch is entered only for
\* a fetched row whose end_date has been passed since the request, and
\* is_active changes only there, from true to false: a row that is past
\* its end_date at every request of a later cycle stays active.
C18_FilterThenExpiry ==
    /\ [][\A i \in Instances, d \in Days :
            /\ cyc'[i][d].pc = "fetch" =>
                  /\ IsoInstant(cyc'[i][d].fetchNow) <= now'
                  /\ IsoInstant(cyc'[i][d].fetchNow) >= d * DayMinutes
            /\ (cyc[i][d].pc = "fetch" /\ cyc'[i][d].pc \notin {"fetch", "aborted"}) =>
                  FetchedSet(cyc'[i][d]) = EligibleIds(investments, cyc[i][d].fetchNow)
            /\ (cyc[i][d].pc # "deactivate" /\ cyc'[i][d].pc = "deactivate") =>
                  /\ cyc[i][d].pc = "read"
                  /\ cyc'[i][d].inv.id \in FetchedSet(cyc[i][d])
                  /\ now > IsoInstant(investments[cyc'[i][d].inv.id].end_date)]_vars
    /\ [][\A k \in 1 .. Len(investments) :
            /\ investments'[k].end_date = investments[k].end_date
            /\ investments'[k].is_active # investments[k].is_active =>
                  /\ investments[k].is_active
                  /\ \E i \in Instances, d \in Days :
                        /\ cyc[i][d].pc = "deactivate"
                        /\ cyc'[i][d].pc # "deactivate"
                        /\ cyc[i][d].inv.id = k
                        /\ ~cyc'[i][d].err]_vars
    /\ [](\A i \in Instances, d \in Days :
            \A k \in FetchedSet(cyc[i][d]) :
               IsoInstant(investments[k].end_date) >= d * DayMinutes)

\* the first record had expired when the cycle of day 1 sent its request:
\* the cycle went through the other record only and the first is still active
C18_Witness ==
    /\ cyc[1][0].pc = "none"
    /\ cyc[1][1].pc = "done"
    /\ cyc[1][1].fetched = << 2 >>
    /\ now > IsoInstant(investments[1].end_date)
    /\ investments[1].is_active


\* the sum of profit_earned over the rows of user u
RECURSIVE ProfitEarnedOf(_, _)
ProfitEarnedOf(table, u) ==
    IF table = << >>
    THEN 0
    ELSE (IF Head(table).user_id = u THEN Head(table).profit_earned ELSE 0)
            + ProfitEarnedOf(Tail(table), u)

\* a step of cycle (i, d) from control point p in which the call failed
FailedAt(i, d, p) ==
    cyc[i][d].pc = p /\ cyc'[i][d] # cyc[i][d] /\ cyc'[i][d].err

\* the ordering part of C19: the credit is issued only after the
\* profit_earned update has succeeded and the notification only after the
\* credit has succeeded; a failed update credits nothing, a failed credit
\* leaves the increase in place and sends no notification
C19_Ordered ==
    [][/\ \A i \in Instances, d \in Days :
            /\ (cyc[i][d].pc # "credit" /\ cyc'[i][d].pc = "credit") =>
                  /\ cyc[i][d].pc = "update"
                  /\ investments'[cyc[i][d].inv.id].profit_earned =
                        cyc[i][d].inv.profit_earned + RowProfit(investments[cyc[i][d].inv.id])
            /\ (cyc[i][d].pc # "notify" /\ cyc'[i][d].pc = "notify") =>
                  /\ cyc[i][d].pc = "credit"
                  /\ balance' # balance
            /\ FailedAt(i, d, "update") =>
                  /\ UNCHANGED dbVars
                  /\ cyc'[i][d].pc \notin {"credit", "notify"}
                  /\ cyc[i][d].inv.id \in cyc'[i][d].failed
            /\ FailedAt(i, d, "credit") =>
                  /\ UNCHANGED dbVars
                  /\ cyc'[i][d].pc # "notify"
                  /\ cyc[i][d].inv.id \in cyc'[i][d].failed
       /\ balance' # balance =>
            \E i \in Instances, d \in Days :
                cyc[i][d].pc = "credit" /\ cyc'[i][d].pc = "notify"
       /\ notes' # notes =>
            \E i \in Instances, d \in Days :
                cyc[i][d].pc = "notify" /\ cyc'[i][d].pc # "notify"]_vars

\* C19 as written: per-record accrual is ordered and uncompensated, and
\* hence, with a single hook instance, the credits a user's balance has
\* received never exceed the profit_earned of that user's investments
C19_OrderedHenceBounded ==
    /\ C19_Ordered
    /\ [](\A u \in Users : balance[u] <= ProfitEarnedOf(investments, u))

====
